---- MODULE Spec2Model ----
(***************************************************************************)
(* Quoridor move generation (quorigen): the board, generate_moves,         *)
(* make_move, pass_turn and set_walls_in_pocket of src/src/board.rs over   *)
(* the 64-bit SquareSet of src/src/squareset.rs.                           *)
(*                                                                         *)
(* A SquareSet (u64) is modelled as the set of its set bit positions,      *)
(* a subset of 0..63; shifts drop the bits that leave the 64-bit word.     *)
(* A Square9x9 is its index 0..80 (file = index % 9, rank = index \div 9), *)
(* a Square8x8 is its index 0..63 (file = index % 8, rank = index \div 8). *)
(* An Option<T> is the empty set (None) or a singleton (Some).             *)
(***************************************************************************)
EXTENDS Integers, Sequences, FiniteSets, TLC

VARIABLES pawns, horizontal_walls, vertical_walls, walls_in_pocket, ply,
          placed, visited, rets, stop, hist, call, cache,
          square_opt, square_str, square_parsed, squareset, rhs

vars == <<pawns, horizontal_walls, vertical_walls, walls_in_pocket, ply,
          placed, visited, rets, stop, hist, call, cache,
          square_opt, square_str, square_parsed, squareset, rhs>>

boardVars == <<pawns, horizontal_walls, vertical_walls, walls_in_pocket, ply>>

genVars == <<visited, rets, stop>>

\* the operations applied to the board so far (kept by the specification
\* of the opening), the last call of the perft engine and the cache handed
\* to perft_cached
perftVars == <<call, cache>>

\* the values of a program that uses the 81-square types on their own:
\* an Option<Square>, a text, the Result of parsing it, and two SquareSets
typesVars == <<square_opt, square_str, square_parsed, squareset, rhs>>

(***************************************************************************)
(* Bounds of the model.                                                    *)
(***************************************************************************)
\* plies played in the game specification
MaxPly == 8
\* the driver of the game specification plays walls on WallSpan crossing
\* points (d1, e1, ...), and any pawn move
WallSpan == 2
\* walls on a board drawn for the specification of generate_moves
MaxDrawnWalls == 1
\* a callback stops at the latest on the MaxStopIdx-th move of its kind
MaxStopIdx == 1

(***************************************************************************)
(* Square9x9 and Square8x8.  board.rs and squareset.rs import both from    *)
(* crate::types, but types.rs defines neither (it holds the single         *)
(* 81-square type `Square`, without the conversion); their adjacency and   *)
(* conversion follow the specification and the expectations of the tests   *)
(* of perft.rs: above is rank + 1, below rank - 1, left file - 1, right    *)
(* file + 1, and a square converts to a crossing point when its file and   *)
(* rank are both below 8.                                                  *)
(***************************************************************************)
Some(opt) == CHOOSE x \in opt : TRUE

Square9x9_above(sq) == IF sq \div 9 = 8 THEN {} ELSE {sq + 9}

Square9x9_below(sq) == IF sq \div 9 = 0 THEN {} ELSE {sq - 9}

Square9x9_left(sq) == IF sq % 9 = 0 THEN {} ELSE {sq - 1}

Square9x9_right(sq) == IF sq % 9 = 8 THEN {} ELSE {sq + 1}

Square8x8_from_file_rank(file, rank) == file + rank * 8

\* TryFrom<Square9x9> for Square8x8: only squares with file < 8 and rank < 8
Square8x8_try_from(sq) ==
    IF sq % 9 < 8 /\ sq \div 9 < 8
    THEN {Square8x8_from_file_rank(sq % 9, sq \div 9)}
    ELSE {}

(***************************************************************************)
(* SquareSet (u64).                                                        *)
(***************************************************************************)
Bits == 0..63

EMPTY == {}

FILE_A == {0, 8, 16, 24, 32, 40, 48, 56}

FILE_H == {7, 15, 23, 31, 39, 47, 55, 63}

Shl(inner, n) == {i + n : i \in inner} \cap Bits

Shr(inner, n) == {i - n : i \in inner} \cap Bits

BitOr(a, b) == a \cup b

BitAnd(a, b) == a \cap b

Not(a) == Bits \ a

contains_square(set, square) == BitAnd(set, Shl({0}, square)) # {}

\* the new bit stored over the set instead of or-ed into it
add_square_replace(set, square) == Shl({0}, square)

add_square(set, square) == BitOr(set, Shl({0}, square))

east_one_nomask(set) == Shl(set, 1)

east_one(set) == BitAnd(Shl(set, 1), Not(FILE_A))

west_one_nomask(set) == Shr(set, 1)

west_one(set) == BitAnd(Shr(set, 1), Not(FILE_H))

north_one_by_nine(set) == Shl(set, 9)

north_one(set) == Shl(set, 8)

south_one(set) == Shr(set, 8)

\* u64::trailing_zeros of a non-zero word: the position of the lowest set bit
trailing_zeros(inner) ==
    CHOOSE i \in inner : \A j \in 0..(i - 1) : j \notin inner

\* SquareSetIter::next on a non-empty iterator: the square it yields and
\* the iterator it leaves (inner & (inner - 1) is inner with its lowest set
\* bit, the bit at trailing_zeros(inner), cleared)
SquareSetIter_next(inner) ==
    LET index == trailing_zeros(inner)
    IN  [item  |-> Square8x8_from_file_rank(index % 8, index \div 8),
         inner |-> inner \ {index}]

(***************************************************************************)
(* Move.                                                                   *)
(***************************************************************************)
PawnMove(to_square) ==
    [kind |-> "Pawn", to_square |-> to_square, orientation |-> "None"]

WallMove(to_square, orientation) ==
    [kind |-> "Wall", to_square |-> to_square, orientation |-> orientation]

\* "Pawn", "Horizontal" or "Vertical"
MoveClass(mv) == IF mv.kind = "Pawn" THEN "Pawn" ELSE mv.orientation

Range(s) == {s[i] : i \in 1..Len(s)}

(***************************************************************************)
(* Board.                                                                  *)
(***************************************************************************)
\* the board value held by the state variables
Board ==
    [pawns            |-> pawns,
     horizontal_walls |-> horizontal_walls,
     vertical_walls   |-> vertical_walls,
     walls_in_pocket  |-> walls_in_pocket,
     ply              |-> ply]

\* Board::default(): pawns on e1 and e9, no walls, ten walls each, ply 0
Board_default ==
    [pawns            |-> <<4, 76>>,
     horizontal_walls |-> EMPTY,
     vertical_walls   |-> EMPTY,
     walls_in_pocket  |-> <<10, 10>>,
     ply              |-> 0]

turn_index_flipped(b) == 1 - (b.ply % 2)

turn_index(b) == b.ply % 2

\* sequences are 1-based: pawns[turn_index + 1] is the code's pawns[turn_index]
MoverPawn(b) == b.pawns[turn_index(b) + 1]

OpponentPawn(b) == b.pawns[(1 - turn_index(b)) + 1]

(***************************************************************************)
(* The callback of generate_moves.  A callback carries its own state (it   *)
(* is an FnMut): the class of move it stops on, how many moves of that     *)
(* class it lets through before it answers true, and how many it has seen. *)
(* n = 0 is the callback that always answers false.                        *)
(***************************************************************************)
Callback(cb, mv) ==
    LET hit  == MoveClass(mv) = cb.class
        seen == IF hit THEN cb.seen + 1 ELSE cb.seen
    IN  [ret |-> hit /\ cb.n > 0 /\ seen = cb.n,
         cb  |-> [cb EXCEPT !.seen = seen]]

NeverStop == [class |-> "Pawn", n |-> 0, seen |-> 0]

Callbacks ==
    {NeverStop} \cup
    {[class |-> c, n |-> n, seen |-> 0] :
        c \in {"Pawn", "Horizontal", "Vertical"}, n \in 1..MaxStopIdx}

(***************************************************************************)
(* generate_moves.  g is the state of one call: the moves handed to the    *)
(* callback so far, what the callback answered, whether the call has       *)
(* returned, and the callback.                                             *)
(***************************************************************************)
GenStart(cb) == [visited |-> <<>>, rets |-> <<>>, done |-> FALSE, cb |-> cb]

\* `if callback(mv) { return; }` without the return
VisitNoReturn(g, mv) ==
    IF g.done THEN g
    ELSE LET r == Callback(g.cb, mv)
         IN  [visited |-> Append(g.visited, mv),
              rets    |-> Append(g.rets, r.ret),
              done    |-> FALSE,
              cb      |-> r.cb]

\* `if callback(mv) { return; }`
Visit(g, mv) ==
    IF g.done THEN g
    ELSE LET r == Callback(g.cb, mv)
         IN  [visited |-> Append(g.visited, mv),
              rets    |-> Append(g.rets, r.ret),
              done    |-> r.ret,
              cb      |-> r.cb]

\* board.rs 77-90
PawnAbove(b, g) ==
    LET pawn == MoverPawn(b)
        wall_here ==
            \E sq \in Square8x8_try_from(pawn) :
                contains_square(b.horizontal_walls, sq)
        wall_to_the_left ==
            \E left \in Square9x9_left(pawn) :
                \E sq \in Square8x8_try_from(left) :
                    contains_square(b.horizontal_walls, sq)
    IN  IF g.done \/ Square9x9_above(pawn) = {} THEN g
        ELSE IF ~wall_here /\ ~wall_to_the_left
             THEN Visit(g, PawnMove(Some(Square9x9_above(pawn))))
             ELSE g

\* the step below never tried
PawnBelowNever(b, g) == g

\* board.rs 91-104
PawnBelow(b, g) ==
    LET pawn == MoverPawn(b)
        to_square == Some(Square9x9_below(pawn))
        wall_over ==
            \E sq \in Square8x8_try_from(to_square) :
                contains_square(b.horizontal_walls, sq)
        wall_to_the_left ==
            \E left \in Square9x9_left(to_square) :
                \E sq \in Square8x8_try_from(left) :
                    contains_square(b.horizontal_walls, sq)
    IN  IF g.done \/ Square9x9_below(pawn) = {} THEN g
        ELSE IF ~wall_over /\ ~wall_to_the_left
             THEN Visit(g, PawnMove(to_square))
             ELSE g

\* the right step with the wall looked up at the pawn's crossing point only
PawnRightHereOnly(b, g) ==
    LET pawn == MoverPawn(b)
        wall_here ==
            \E sq \in Square8x8_try_from(pawn) :
                contains_square(b.vertical_walls, sq)
    IN  IF g.done \/ Square9x9_right(pawn) = {} THEN g
        ELSE IF ~wall_here
             THEN Visit(g, PawnMove(Some(Square9x9_right(pawn))))
             ELSE g

\* board.rs 105-118
PawnRight(b, g) ==
    LET pawn == MoverPawn(b)
        wall_here ==
            \E sq \in Square8x8_try_from(pawn) :
                contains_square(b.vertical_walls, sq)
        wall_below ==
            \E below \in Square9x9_below(pawn) :
                \E sq \in Square8x8_try_from(below) :
                    contains_square(b.vertical_walls, sq)
    IN  IF g.done \/ Square9x9_right(pawn) = {} THEN g
        ELSE IF ~wall_here /\ ~wall_below
             THEN Visit(g, PawnMove(Some(Square9x9_right(pawn))))
             ELSE g

\* the left step with the walls looked up at the pawn instead of to_square
PawnLeftAtPawn(b, g) ==
    LET pawn == MoverPawn(b)
        wall_over ==
            \E sq \in Square8x8_try_from(pawn) :
                contains_square(b.vertical_walls, sq)
        wall_below ==
            \E below \in Square9x9_below(pawn) :
                \E sq \in Square8x8_try_from(below) :
                    contains_square(b.vertical_walls, sq)
    IN  IF g.done \/ Square9x9_left(pawn) = {} THEN g
        ELSE IF ~wall_over /\ ~wall_below
             THEN Visit(g, PawnMove(Some(Square9x9_left(pawn))))
             ELSE g

\* board.rs 119-132
PawnLeft(b, g) ==
    LET pawn == MoverPawn(b)
        to_square == Some(Square9x9_left(pawn))
        wall_over ==
            \E sq \in Square8x8_try_from(to_square) :
                contains_square(b.vertical_walls, sq)
        wall_below ==
            \E below \in Square9x9_below(to_square) :
                \E sq \in Square8x8_try_from(below) :
                    contains_square(b.vertical_walls, sq)
    IN  IF g.done \/ Square9x9_left(pawn) = {} THEN g
        ELSE IF ~wall_over /\ ~wall_below
             THEN Visit(g, PawnMove(to_square))
             ELSE g

\* the wall-count test reading the opponent's pocket
NoWallsLeftOpponent(b) == b.walls_in_pocket[(1 - turn_index(b)) + 1] = 0

\* a variant of the test that never finds the pocket empty
NoWallsLeftNever(b) == FALSE

\* board.rs 135-138: `if our_wall_count == 0 { return; }`
NoWallsLeft(b) == b.walls_in_pocket[turn_index(b) + 1] = 0

\* the horizontal blockers without the vertical walls
HorizontalBlockersNoCross(b) ==
    LET b1 == b.horizontal_walls
        b2 == BitOr(b1, east_one(b1))
        b3 == BitOr(b2, west_one(b2))
    IN  b3

\* board.rs 143-149
HorizontalBlockers(b) ==
    LET b1 == b.horizontal_walls
        b2 == BitOr(b1, east_one(b1))
        b3 == BitOr(b2, west_one(b2))
    IN  BitOr(b3, b.vertical_walls)

\* the vertical blockers without the horizontal walls
VerticalBlockersNoCross(b) ==
    LET b1 == b.vertical_walls
        b2 == BitOr(b1, north_one(b1))
        b3 == BitOr(b2, south_one(b2))
    IN  b3

\* the vertical blockers without the crossing points above and below the
\* vertical walls
VerticalBlockersNoNeighbours(b) ==
    BitOr(b.vertical_walls, b.horizontal_walls)

\* board.rs 164-170
VerticalBlockers(b) ==
    LET b1 == b.vertical_walls
        b2 == BitOr(b1, north_one(b1))
        b3 == BitOr(b2, south_one(b2))
    IN  BitOr(b3, b.horizontal_walls)

\* board.rs 152-159 and 173-180: `for to_square in moves { ... }`
RECURSIVE WallLoop(_, _, _)
WallLoop(g, inner, orientation) ==
    IF g.done \/ inner = {} THEN g
    ELSE LET nx == SquareSetIter_next(inner)
         IN  WallLoop(Visit(g, WallMove(nx.item, orientation)),
                      nx.inner, orientation)

\* the pawn steps tried left before right
PawnStepsLeftFirst(b, g) ==
    PawnRight(b, PawnLeft(b, PawnBelow(b, PawnAbove(b, g))))

\* board.rs 76-132: the four pawn steps, in the order of the code
PawnSteps(b, g) ==
    PawnLeft(b, PawnRight(b, PawnBelow(b, PawnAbove(b, g))))

\* Board::generate_moves with callback cb: the state of the call at its end
generate_moves(b, cb) ==
    LET g4 == PawnSteps(b, GenStart(cb))
        g5 == IF NoWallsLeft(b) THEN [g4 EXCEPT !.done = TRUE] ELSE g4
        g6 == WallLoop(g5, Not(HorizontalBlockers(b)), "Horizontal")
    IN  WallLoop(g6, Not(VerticalBlockers(b)), "Vertical")

\* the moves generate_moves hands to a callback that never stops it
GeneratedMoves(b) == Range(generate_moves(b, NeverStop).visited)

\* perft.rs 10-17: the callback counts the moves it is handed
MoveCount(b) == Len(generate_moves(b, NeverStop).visited)

\* make_move without the increment of ply
make_move_keep_ply(b, mv) ==
    IF mv.kind = "Pawn"
    THEN [b EXCEPT !.pawns[turn_index(b) + 1] = mv.to_square]
    ELSE LET b1 == [b EXCEPT !.walls_in_pocket[turn_index(b) + 1] =
                                 (@ - 1) % 256]
         IN  IF mv.orientation = "Horizontal"
             THEN [b1 EXCEPT !.horizontal_walls = add_square(@, mv.to_square)]
             ELSE [b1 EXCEPT !.vertical_walls = add_square(@, mv.to_square)]

\* make_move takes the wall from the opponent's pocket
make_move_other_pocket(b, mv) ==
    IF mv.kind = "Pawn"
    THEN [b EXCEPT !.pawns[turn_index(b) + 1] = mv.to_square,
                   !.ply = (b.ply + 1) % 65536]
    ELSE LET b1 == [b EXCEPT !.walls_in_pocket[(1 - turn_index(b)) + 1] =
                                 (@ - 1) % 256]
             b2 == IF mv.orientation = "Horizontal"
                   THEN [b1 EXCEPT !.horizontal_walls =
                                       add_square(@, mv.to_square)]
                   ELSE [b1 EXCEPT !.vertical_walls =
                                       add_square(@, mv.to_square)]
         IN  [b2 EXCEPT !.ply = (b.ply + 1) % 65536]

\* Board::make_move (the counts keep their widths: u8 and u16)
make_move(b, mv) ==
    IF mv.kind = "Pawn"
    THEN [b EXCEPT !.pawns[turn_index(b) + 1] = mv.to_square,
                   !.ply = (b.ply + 1) % 65536]
    ELSE LET b1 == [b EXCEPT !.walls_in_pocket[turn_index(b) + 1] =
                                 (@ - 1) % 256]
             b2 == IF mv.orientation = "Horizontal"
                   THEN [b1 EXCEPT !.horizontal_walls =
                                       add_square(@, mv.to_square)]
                   ELSE [b1 EXCEPT !.vertical_walls =
                                       add_square(@, mv.to_square)]
         IN  [b2 EXCEPT !.ply = (b.ply + 1) % 65536]

\* pass_turn adding two to ply
pass_turn_twice(b) == [b EXCEPT !.ply = (b.ply + 2) % 65536]

\* Board::pass_turn
pass_turn(b) == [b EXCEPT !.ply = (b.ply + 1) % 65536]

\* Board::set_walls_in_pocket
set_walls_in_pocket(b, white, black) ==
    [b EXCEPT !.walls_in_pocket = <<white, black>>]

(***************************************************************************)
(* The perft engine (perft.rs).  Both callbacks answer false, so every     *)
(* call of generate_moves runs to its end.  The count is a u64; the counts *)
(* of the model stay far below 2^31.                                       *)
(***************************************************************************)
\* perft.rs 19-27: the sum, over the moves visited from the lo-th to the
\* hi-th, of perft of the board each move leads to (the sum of the loop,
\* taken by halves: the additions are the same, the evaluation is
\* shallower)
RECURSIVE perft(_, _), perft_loop(_, _, _, _, _)
RECURSIVE perft_loop_same_board(_, _, _, _, _)

\* the callback without its make_move: perft of the same board
perft_loop_same_board(b, moves, depth, lo, hi) ==
    IF lo > hi THEN 0
    ELSE IF lo = hi THEN perft(b, depth - 1)
    ELSE LET mid == (lo + hi) \div 2
         IN  perft_loop_same_board(b, moves, depth, lo, mid)
                 + perft_loop_same_board(b, moves, depth, mid + 1, hi)

perft_loop(b, moves, depth, lo, hi) ==
    IF lo > hi THEN 0
    ELSE IF lo = hi THEN perft(make_move(b, moves[lo]), depth - 1)
    ELSE LET mid == (lo + hi) \div 2
         IN  perft_loop(b, moves, depth, lo, mid)
                 + perft_loop(b, moves, depth, mid + 1, hi)

\* perft.rs 5-28
perft(b, depth) ==
    IF depth = 0 THEN 1
    ELSE IF depth = 1 THEN MoveCount(b)
    ELSE LET moves == generate_moves(b, NeverStop).visited
         IN  perft_loop(b, moves, depth, 1, Len(moves))

\* the cache is a HashMap<(Board, u8), u64>, at most one entry for a key:
\* the set of its entries
\* the lookup by the board alone
cache_get_any_depth(c, b, depth) ==
    {e.count : e \in {x \in c : x.board = b}}

\* cache.get(&(board, depth)): an Option
cache_get(c, b, depth) ==
    {e.count : e \in {x \in c : x.board = b /\ x.depth = depth}}

\* a variant of insert that files the count under the depth below
cache_insert_depth_below(c, b, depth, count) ==
    c \cup {[board |-> b, depth |-> depth - 1, count |-> count]}

\* cache.insert((board, depth), count)
cache_insert(c, b, depth, count) ==
    {x \in c : ~(x.board = b /\ x.depth = depth)}
        \cup {[board |-> b, depth |-> depth, count |-> count]}

\* perft.rs 54-60: the loop of perft_cached over the moves visited from the
\* lo-th to the hi-th, in order; acc is the count so far and the cache,
\* carried from one successor to the next (the first half of the moves is
\* evaluated, by the test of its count, before the second half starts)
RECURSIVE perft_cached(_, _, _), perft_cached_loop(_, _, _, _, _, _)
perft_cached_loop(b, moves, depth, lo, hi, acc) ==
    IF lo > hi THEN acc
    ELSE IF lo = hi
    THEN LET r == perft_cached(make_move(b, moves[lo]), depth - 1, acc.cache)
         IN  [count |-> acc.count + r.count, cache |-> r.cache]
    ELSE LET mid  == (lo + hi) \div 2
             half == perft_cached_loop(b, moves, depth, lo, mid, acc)
         IN  IF half.count >= 0
             THEN perft_cached_loop(b, moves, depth, mid + 1, hi, half)
             ELSE half

\* perft.rs 30-65: the count returned and the cache left
perft_cached(b, depth, c) ==
    IF depth = 0 THEN [count |-> 1, cache |-> c]
    ELSE IF depth = 1 THEN [count |-> MoveCount(b), cache |-> c]
    ELSE IF cache_get(c, b, depth) # {}
         THEN [count |-> Some(cache_get(c, b, depth)), cache |-> c]
         ELSE LET moves == generate_moves(b, NeverStop).visited
                  r == perft_cached_loop(b, moves, depth, 1, Len(moves),
                                         [count |-> 0, cache |-> c])
              IN  [count |-> r.count,
                   cache |-> cache_insert(r.cache, b, depth, r.count)]

(***************************************************************************)
(* Actions.                                                                *)
(***************************************************************************)
SetBoard(b) ==
    /\ pawns' = b.pawns
    /\ horizontal_walls' = b.horizontal_walls
    /\ vertical_walls' = b.vertical_walls
    /\ walls_in_pocket' = b.walls_in_pocket
    /\ ply' = b.ply

Unset == [class |-> "Unset", n |-> 0, seen |-> 0]

\* no text has been parsed
NoResult == [kind |-> "None", err |-> "None", val |-> 0]

\* the program holds no square, no text and two empty sets
TypesIdle ==
    /\ square_opt = {}
    /\ square_str = <<>>
    /\ square_parsed = NoResult
    /\ squareset = {}
    /\ rhs = {}

\* no call of the perft engine has been made
NoCall == [fn |-> "none", depth |-> 0, count |-> 0]

Init ==
    /\ pawns = Board_default.pawns
    /\ horizontal_walls = Board_default.horizontal_walls
    /\ vertical_walls = Board_default.vertical_walls
    /\ walls_in_pocket = Board_default.walls_in_pocket
    /\ ply = Board_default.ply
    /\ placed = <<0, 0>>
    /\ visited = <<>>
    /\ rets = <<>>
    /\ stop = Unset
    /\ hist = <<>>
    /\ call = NoCall
    /\ cache = {}
    /\ TypesIdle

\* the callback of perft applies make_move to the move it is handed;
\* placed counts the walls each player has put on the board
MakeMove(mv) ==
    /\ SetBoard(make_move(Board, mv))
    /\ placed' = IF mv.kind = "Wall"
                 THEN [placed EXCEPT ![turn_index(Board) + 1] = @ + 1]
                 ELSE placed
    /\ UNCHANGED genVars

PassTurn ==
    /\ SetBoard(pass_turn(Board))
    /\ UNCHANGED <<placed, visited, rets, stop>>

\* the driver of the game specification plays any pawn move, and the wall
\* moves on the crossing points d1, e1, ... (WallSpan of them)
DriverPlays(mv) ==
    mv.kind = "Pawn" \/ mv.to_square \in 3..(3 + WallSpan - 1)

Next ==
    \/ /\ ply < MaxPly
       /\ \E mv \in {m \in GeneratedMoves(Board) : DriverPlays(m)} :
              MakeMove(mv)
       /\ UNCHANGED <<hist, call, cache, typesVars>>
    \/ /\ ply < MaxPly
       /\ PassTurn
       /\ UNCHANGED <<hist, call, cache, typesVars>>

Spec == Init /\ [][Next]_vars


(***************************************************************************)
(* generate_moves as a function of the board: the boards are drawn from a  *)
(* bounded set of positions of a game (the initial board, and mid-game     *)
(* boards with the pawns and walls on chosen squares), fixtures are built  *)
(* with set_walls_in_pocket as the tests do, and generate_moves is called  *)
(* once with one of the callbacks.                                         *)
(***************************************************************************)
\* e1/e9 (the start), e5/e6 and e5/f5 (adjacent pawns), a1/i9 (corners),
\* e8/e9 (adjacent, at the north edge)
ProbePawns == {<<4, 76>>, <<40, 49>>, <<40, 41>>, <<0, 80>>, <<67, 76>>}

\* e1, h1, a2, d4, e4, d5, e5, d8, e8, h8
ProbeCrossings == {4, 7, 8, 27, 28, 35, 36, 59, 60, 63}

ProbeWalls ==
    {WallMove(sq, o) : sq \in ProbeCrossings, o \in {"Horizontal", "Vertical"}}

WallsOf(W, o) == {w.to_square : w \in {x \in W : x.orientation = o}}

\* walls that can stand together: no two on one crossing point, no two of
\* one orientation on neighbouring crossing points along their length
Compatible(W) ==
    LET H == WallsOf(W, "Horizontal")
        V == WallsOf(W, "Vertical")
    IN  /\ H \cap V = {}
        /\ \A sq \in H : sq % 8 = 7 \/ sq + 1 \notin H
        /\ \A sq \in V : sq + 8 \notin V

\* the sets of at most n probe walls
RECURSIVE WallSets(_)
WallSets(n) ==
    IF n = 0 THEN {{}}
    ELSE LET smaller == WallSets(n - 1)
         IN  smaller \cup {W \cup {w} : W \in smaller, w \in ProbeWalls}

DrawnWalls == {W \in WallSets(MaxDrawnWalls) : Compatible(W)}

\* a mid-game board: the first player has placed the horizontal walls, the
\* second the vertical ones
DrawnBoard(pp, W, p) ==
    [pawns            |-> pp,
     horizontal_walls |-> WallsOf(W, "Horizontal"),
     vertical_walls   |-> WallsOf(W, "Vertical"),
     walls_in_pocket  |-> <<10 - Cardinality(WallsOf(W, "Horizontal")),
                            10 - Cardinality(WallsOf(W, "Vertical"))>>,
     ply              |-> p]

DrawnBoards ==
    {Board_default} \cup
    {DrawnBoard(pp, W, p) : pp \in ProbePawns, W \in DrawnWalls, p \in {16, 17}}

InitBoards ==
    /\ \E b \in DrawnBoards :
          /\ pawns = b.pawns
          /\ horizontal_walls = b.horizontal_walls
          /\ vertical_walls = b.vertical_walls
          /\ walls_in_pocket = b.walls_in_pocket
          /\ ply = b.ply
          /\ placed = <<10 - b.walls_in_pocket[1], 10 - b.walls_in_pocket[2]>>
    /\ visited = <<>>
    /\ rets = <<>>
    /\ stop = Unset
    /\ hist = <<>>
    /\ call = NoCall
    /\ cache = {}
    /\ TypesIdle

Generated == stop # Unset

SetWallsInPocket(white, black) ==
    /\ ~Generated
    /\ SetBoard(set_walls_in_pocket(Board, white, black))
    /\ UNCHANGED <<placed, visited, rets, stop>>

\* one call of generate_moves on the board, with callback cb
GenerateMoves(cb) ==
    /\ ~Generated
    /\ LET g == generate_moves(Board, cb)
       IN  /\ visited' = g.visited
           /\ rets' = g.rets
    /\ stop' = cb
    /\ UNCHANGED <<boardVars, placed>>

NextBoards ==
    \/ /\ \E white \in {0, 1}, black \in {0, 1} :
              SetWallsInPocket(white, black)
       /\ UNCHANGED <<hist, call, cache, typesVars>>
    \/ /\ \E cb \in Callbacks : GenerateMoves(cb)
       /\ UNCHANGED <<hist, call, cache, typesVars>>

SpecBoards == InitBoards /\ [][NextBoards]_vars

(***************************************************************************)
(* One operation on a board of a game: make_move of a generated move, or   *)
(* pass_turn, on a board drawn at an early or at a late ply (ply is a u16, *)
(* and a game has no bound on its length: pass_turn and pawn moves can go  *)
(* on for ever).  hist records the operation applied.  The increment of    *)
(* ply at 65535 overflows: a release build wraps to 0, which is what       *)
(* make_move and pass_turn above compute; a debug build panics.            *)
(***************************************************************************)
Pass == [kind |-> "Pass", to_square |-> 0, orientation |-> "None"]

PlayMove(mv) ==
    /\ MakeMove(mv)
    /\ hist' = Append(hist, mv)
    /\ UNCHANGED <<perftVars, typesVars>>

PlayPass ==
    /\ PassTurn
    /\ hist' = Append(hist, Pass)
    /\ UNCHANGED <<perftVars, typesVars>>

FramePlies == {16, 17, 65534, 65535}

\* no wall, d4h, or e5v
FrameWalls == {{}, {WallMove(27, "Horizontal")}, {WallMove(36, "Vertical")}}

\* the drawn boards, and fixtures where the first player holds one wall and
\* the second none
FrameBoards ==
    {DrawnBoard(pp, W, p) :
        pp \in ProbePawns, W \in FrameWalls, p \in FramePlies}
    \cup {set_walls_in_pocket(DrawnBoard(<<40, 49>>, {}, p), 1, 0) :
              p \in FramePlies}

InitFrame ==
    /\ \E b \in FrameBoards :
          /\ pawns = b.pawns
          /\ horizontal_walls = b.horizontal_walls
          /\ vertical_walls = b.vertical_walls
          /\ walls_in_pocket = b.walls_in_pocket
          /\ ply = b.ply
          /\ placed = <<Cardinality(b.horizontal_walls),
                        Cardinality(b.vertical_walls)>>
    /\ visited = <<>>
    /\ rets = <<>>
    /\ stop = Unset
    /\ hist = <<>>
    /\ call = NoCall
    /\ cache = {}
    /\ TypesIdle

NextFrame ==
    \/ /\ hist = <<>>
       /\ \E mv \in GeneratedMoves(Board) : PlayMove(mv)
    \/ /\ hist = <<>>
       /\ PlayPass

SpecFrame == InitFrame /\ [][NextFrame]_vars

(***************************************************************************)
(* The opening: from the initial board the first player makes any          *)
(* generated move or passes, further operations follow (pass_turn and     *)
(* pawn moves), and generate_moves is called on the board reached.         *)
(***************************************************************************)
\* operations after the first
MaxReplies == 1

OpeningPlays(mv) == hist = <<>> \/ mv.kind = "Pawn"

NextPlay ==
    \/ /\ ~Generated
       /\ Len(hist) <= MaxReplies
       /\ \E mv \in {m \in GeneratedMoves(Board) : OpeningPlays(m)} :
              PlayMove(mv)
    \/ /\ ~Generated
       /\ Len(hist) <= MaxReplies
       /\ PlayPass
    \/ /\ GenerateMoves(NeverStop)
       /\ UNCHANGED <<hist, call, cache, typesVars>>

SpecPlay == Init /\ [][NextPlay]_vars

(***************************************************************************)
(* The perft engine on fixture boards.  perft is called as the tests call  *)
(* it, without a cache; perft_cached is called with the cache the earlier  *)
(* calls left, as main does, on one board after another.  hist records the *)
(* calls made.                                                             *)
(***************************************************************************)
\* the depth of the calls on a board where neither player holds a wall
MaxDepth == 5
\* calls of perft_cached that share one cache
MaxCalls == 2
\* the depth of the calls on a board where a player holds a wall
\* (perft_depth_two)
DepthTwo == 2

\* the initial board with no wall in pocket (perft_nowall), the same after
\* e2, and the same after e2 and pass_turn
NoWallBoard == set_walls_in_pocket(Board_default, 0, 0)

NoWallBoardE2 == make_move(NoWallBoard, PawnMove(13))

NoWallBoardE2Pass == pass_turn(NoWallBoardE2)

\* the initial board with one wall in the first player's pocket
OneWallBoard == set_walls_in_pocket(Board_default, 1, 0)

Fixtures == {NoWallBoardE2, NoWallBoardE2Pass, OneWallBoard}

PerftBoards == {Board_default} \cup Fixtures

DepthOf(b) == IF b.walls_in_pocket = <<0, 0>> THEN MaxDepth ELSE DepthTwo

Called(fn) == [kind |-> fn, to_square |-> 0, orientation |-> "None"]

InitPerft ==
    /\ \E b \in PerftBoards :
          /\ pawns = b.pawns
          /\ horizontal_walls = b.horizontal_walls
          /\ vertical_walls = b.vertical_walls
          /\ walls_in_pocket = b.walls_in_pocket
          /\ ply = b.ply
    /\ placed = <<0, 0>>
    /\ visited = <<>>
    /\ rets = <<>>
    /\ stop = Unset
    /\ hist = <<>>
    /\ call = NoCall
    /\ cache = {}
    /\ TypesIdle

\* let count = perft(board, depth), as in the tests
CallPerft(depth) ==
    /\ hist = <<>>
    /\ call' = [fn |-> "perft", depth |-> depth, count |-> perft(Board, depth)]
    /\ hist' = Append(hist, Called("perft"))
    /\ UNCHANGED <<boardVars, placed, genVars, cache, typesVars>>

\* let count = perft_cached(board, depth, &mut map), as in main
CallPerftCached(depth) ==
    /\ Len(hist) < MaxCalls
    /\ \A i \in 1..Len(hist) : hist[i] = Called("perft_cached")
    /\ LET r == perft_cached(Board, depth, cache)
       IN  /\ call' = [fn |-> "perft_cached", depth |-> depth,
                       count |-> r.count]
           /\ cache' = r.cache
    /\ hist' = Append(hist, Called("perft_cached"))
    /\ UNCHANGED <<boardVars, placed, genVars, typesVars>>

\* the next call is made on another fixture, with the same cache
SwitchBoard(b) ==
    /\ Board \in Fixtures
    /\ b # Board
    /\ call.fn = "perft_cached"
    /\ Len(hist) < MaxCalls
    /\ SetBoard(b)
    /\ call' = NoCall
    /\ UNCHANGED <<placed, genVars, hist, cache, typesVars>>

NextPerft ==
    \/ \E depth \in 0..DepthOf(Board) : CallPerft(depth)
    \/ \E depth \in 0..DepthOf(Board) : CallPerftCached(depth)
    \/ \E b \in Fixtures : SwitchBoard(b)

SpecPerft == InitPerft /\ [][NextPerft]_vars

(***************************************************************************)
(* The geometry the properties are stated in, square by square.            *)
(***************************************************************************)
Sq9(file, rank) == file + rank * 9

File9(sq) == sq % 9

Rank9(sq) == sq \div 9

\* a wall stands on the crossing point (file, rank); crossing points outside
\* the 8x8 grid hold no wall
HWallAt(b, file, rank) ==
    /\ file \in 0..7
    /\ rank \in 0..7
    /\ (file + rank * 8) \in b.horizontal_walls

VWallAt(b, file, rank) ==
    /\ file \in 0..7
    /\ rank \in 0..7
    /\ (file + rank * 8) \in b.vertical_walls

Visited(mv) == \E i \in 1..Len(visited) : visited[i] = mv

MoverPocket(b) == b.walls_in_pocket[(b.ply % 2) + 1]

Mover(b) == b.pawns[(b.ply % 2) + 1]

Opponent(b) == b.pawns[(1 - (b.ply % 2)) + 1]

(***************************************************************************)
(* C1.  On the initial board generate_moves visits exactly 131 distinct    *)
(* moves: the pawn moves e2, d1, f1, the 64 horizontal and the 64 vertical *)
(* wall placements a1..h8, and nothing else.                               *)
(***************************************************************************)
InitialMoves ==
    {PawnMove(Sq9(4, 1)), PawnMove(Sq9(3, 0)), PawnMove(Sq9(5, 0))} \cup
    {WallMove(sq, o) : sq \in 0..63, o \in {"Horizontal", "Vertical"}}

C1_InitialMoves ==
    (Generated /\ stop = NeverStop /\ Board = Board_default) =>
        /\ Len(visited) = 131
        /\ Range(visited) = InitialMoves

C1_Witness ==
    /\ Generated
    /\ stop = NeverStop
    /\ Board = Board_default
    /\ Len(visited) = 131
    /\ Visited(PawnMove(13))

(***************************************************************************)
(* C2.  When the square one step from the mover's pawn is occupied by the  *)
(* opponent's pawn and no wall blocks the step, generate_moves does not    *)
(* visit the move onto that square; it visits the move to the square one   *)
(* further step in the same direction.                                     *)
(***************************************************************************)
Directions == {"north", "south", "east", "west"}

DFile(d) == IF d = "east" THEN 1 ELSE IF d = "west" THEN -1 ELSE 0

DRank(d) == IF d = "north" THEN 1 ELSE IF d = "south" THEN -1 ELSE 0

OnGrid(file, rank) == file \in 0..8 /\ rank \in 0..8

\* a wall blocks the step from (file, rank) in direction d
StepBlocked(b, file, rank, d) ==
    CASE d = "north" -> HWallAt(b, file, rank) \/ HWallAt(b, file - 1, rank)
      [] d = "south" -> HWallAt(b, file, rank - 1) \/ HWallAt(b, file - 1, rank - 1)
      [] d = "east"  -> VWallAt(b, file, rank) \/ VWallAt(b, file, rank - 1)
      [] d = "west"  -> VWallAt(b, file - 1, rank) \/ VWallAt(b, file - 1, rank - 1)

C2_StraightJump ==
    (Generated /\ stop = NeverStop) =>
        \A d \in Directions :
            LET f  == File9(Mover(Board))
                r  == Rank9(Mover(Board))
                f1 == f + DFile(d)
                r1 == r + DRank(d)
                f2 == f1 + DFile(d)
                r2 == r1 + DRank(d)
            IN  ( /\ OnGrid(f1, r1)
                  /\ Opponent(Board) = Sq9(f1, r1)
                  /\ ~StepBlocked(Board, f, r, d) ) =>
                    /\ ~Visited(PawnMove(Sq9(f1, r1)))
                    /\ OnGrid(f2, r2) => Visited(PawnMove(Sq9(f2, r2)))

(***************************************************************************)
(* C3.  In every board reached from the initial board by make_move of      *)
(* generated moves and pass_turn, the two pawns stand on distinct squares. *)
(***************************************************************************)
C3_PawnsDistinct == pawns[1] # pawns[2]

(***************************************************************************)
(* C4.  For a mover with a wall in pocket, generate_moves visits the       *)
(* horizontal placement at X iff no horizontal wall is at X, at its east   *)
(* or at its west neighbour (same rank) and no vertical wall is at X; the  *)
(* vertical placement at X iff no vertical wall is at X, at its north or   *)
(* at its south neighbour and no horizontal wall is at X.                  *)
(***************************************************************************)
HorizontalFree(b, file, rank) ==
    /\ ~HWallAt(b, file, rank)
    /\ ~HWallAt(b, file + 1, rank)
    /\ ~HWallAt(b, file - 1, rank)
    /\ ~VWallAt(b, file, rank)

VerticalFree(b, file, rank) ==
    /\ ~VWallAt(b, file, rank)
    /\ ~VWallAt(b, file, rank + 1)
    /\ ~VWallAt(b, file, rank - 1)
    /\ ~HWallAt(b, file, rank)

C4_WallPlacements ==
    (Generated /\ stop = NeverStop /\ MoverPocket(Board) >= 1) =>
        LET seen == Range(visited)
        IN  \A file \in 0..7, rank \in 0..7 :
                /\ WallMove(file + rank * 8, "Horizontal") \in seen
                       <=> HorizontalFree(Board, file, rank)
                /\ WallMove(file + rank * 8, "Vertical") \in seen
                       <=> VerticalFree(Board, file, rank)

\* a horizontal wall on h1: g1h is not visited, a2h (the next rank) is
C4_Witness ==
    /\ Generated
    /\ stop = NeverStop
    /\ MoverPocket(Board) >= 1
    /\ 7 \in horizontal_walls
    /\ ~Visited(WallMove(6, "Horizontal"))
    /\ Visited(WallMove(8, "Horizontal"))
    /\ ~Visited(WallMove(7, "Vertical"))

(***************************************************************************)
(* C5.  With the mover's pawn at (f, r) and the opponent's pawn not on the *)
(* destination, generate_moves visits the step in a direction iff the      *)
(* destination is on the grid and neither of the two crossing points next  *)
(* to the edge crossed holds a wall perpendicular to the step.             *)
(***************************************************************************)
C5_PawnSteps ==
    (Generated /\ stop = NeverStop) =>
        \A d \in Directions :
            LET f  == File9(Mover(Board))
                r  == Rank9(Mover(Board))
                f1 == f + DFile(d)
                r1 == r + DRank(d)
            IN  ~(OnGrid(f1, r1) /\ Opponent(Board) = Sq9(f1, r1)) =>
                    ( (\E i \in 1..Len(visited) :
                          /\ visited[i].kind = "Pawn"
                          /\ File9(visited[i].to_square) = f1
                          /\ Rank9(visited[i].to_square) = r1)
                      <=> (OnGrid(f1, r1) /\ ~StepBlocked(Board, f, r, d)) )

\* the pawn on e5 with a vertical wall on d5: the west step is not visited,
\* the other three are
C5_Witness ==
    /\ Generated
    /\ stop = NeverStop
    /\ Mover(Board) = 40
    /\ 35 \in vertical_walls
    /\ ~Visited(PawnMove(39))
    /\ Visited(PawnMove(31))
    /\ Visited(PawnMove(49))

(***************************************************************************)
(* C6.  generate_moves visits the pawn moves in the order north, south,    *)
(* west, east, then the horizontal placements in strictly increasing       *)
(* index, then the vertical placements in strictly increasing index.       *)
(***************************************************************************)
\* the direction of a pawn move of the mover
StepDirection(b, mv) ==
    LET df == File9(mv.to_square) - File9(Mover(b))
        dr == Rank9(mv.to_square) - Rank9(Mover(b))
    IN  CASE df = 0 /\ dr = 1  -> "north"
          [] df = 0 /\ dr = -1 -> "south"
          [] df = 1 /\ dr = 0  -> "east"
          [] df = -1 /\ dr = 0 -> "west"
          [] OTHER -> "none"

\* the place of a move in the order: pawn moves by direction, then the
\* horizontal walls by index, then the vertical walls by index
OrderKey(b, mv, pawnOrder) ==
    IF mv.kind = "Pawn"
    THEN LET d == StepDirection(b, mv)
         IN  IF \E k \in 1..4 : pawnOrder[k] = d
             THEN CHOOSE k \in 1..4 : pawnOrder[k] = d
             ELSE 0
    ELSE IF mv.orientation = "Horizontal"
         THEN 100 + mv.to_square
         ELSE 200 + mv.to_square

InOrder(pawnOrder) ==
    /\ \A i \in 1..Len(visited) : OrderKey(Board, visited[i], pawnOrder) > 0
    /\ \A i \in 1..(Len(visited) - 1) :
           OrderKey(Board, visited[i], pawnOrder)
               < OrderKey(Board, visited[i + 1], pawnOrder)

\* the claim as stated: north, south, west, east
C6_OrderWestFirst ==
    Generated => InOrder(<<"north", "south", "west", "east">>)

\* amended: north, south, east, west
C6_OrderEastFirst ==
    Generated => InOrder(<<"north", "south", "east", "west">>)

\* the pawn on e5: all four steps, then walls of both orientations
C6_Witness ==
    /\ Generated
    /\ stop = NeverStop
    /\ Mover(Board) = 40
    /\ Len(visited) > 100
    /\ visited[1] = PawnMove(49)
    /\ visited[2] = PawnMove(31)
    /\ visited[3] = PawnMove(41)
    /\ visited[4] = PawnMove(39)
    /\ visited[5].orientation = "Horizontal"
    /\ visited[Len(visited)].orientation = "Vertical"

(***************************************************************************)
(* C7.  Once the callback answers true generate_moves hands it no further  *)
(* move, whether the move was a pawn move, a horizontal or a vertical      *)
(* wall; when the callback always answers false every move of the board    *)
(* is visited exactly once.                                                *)
(***************************************************************************)
\* the moves of board b, square by square: the pawn steps no wall blocks
\* and, for a mover with a wall in pocket, the free placements
MovesOf(b) ==
    {PawnMove(Sq9(File9(Mover(b)) + DFile(d), Rank9(Mover(b)) + DRank(d))) :
        d \in {x \in Directions :
                 /\ OnGrid(File9(Mover(b)) + DFile(x), Rank9(Mover(b)) + DRank(x))
                 /\ ~StepBlocked(b, File9(Mover(b)), Rank9(Mover(b)), x)}}
    \cup
    {WallMove(sq, "Horizontal") :
        sq \in {x \in 0..63 : /\ MoverPocket(b) >= 1
                              /\ HorizontalFree(b, x % 8, x \div 8)}}
    \cup
    {WallMove(sq, "Vertical") :
        sq \in {x \in 0..63 : /\ MoverPocket(b) >= 1
                              /\ VerticalFree(b, x % 8, x \div 8)}}

C8_NoWallsNoWallMoves ==
    (Generated /\ stop = NeverStop /\ MoverPocket(Board) = 0) =>
        /\ \A i \in 1..Len(visited) : visited[i].kind = "Pawn"
        /\ Board = set_walls_in_pocket(Board_default, 0, 0) => Len(visited) = 3

\* the mover's pocket is empty, the opponent's is not
C8_Witness ==
    /\ Generated
    /\ stop = NeverStop
    /\ MoverPocket(Board) = 0
    /\ walls_in_pocket[(1 - (ply % 2)) + 1] > 0
    /\ Len(visited) >= 2

(***************************************************************************)
(* C9.  In every board reached from the initial board by make_move of      *)
(* generated moves and pass_turn, no crossing point holds both a           *)
(* horizontal and a vertical wall.                                         *)
(***************************************************************************)
C9_NoCrossingWalls == horizontal_walls \cap vertical_walls = {}

\* walls of both orientations stand on the board
C9_Witness ==
    /\ ply > 0
    /\ 3 \in horizontal_walls
    /\ 4 \in vertical_walls

(***************************************************************************)
(* C10.  Along every sequence of make_move (of generated moves) and        *)
(* pass_turn from the initial board, no player's walls_in_pocket ever      *)
(* increases, and walls_in_pocket[p] plus the walls p has placed never     *)
(* exceeds 10.                                                             *)
(***************************************************************************)
C10_Pockets ==
    /\ [](\A p \in 1..2 : walls_in_pocket[p] + placed[p] <= 10)
    /\ [][\A p \in 1..2 : walls_in_pocket'[p] <= walls_in_pocket[p]]_vars

\* both players have placed walls
C10_Witness ==
    /\ placed[1] >= 1
    /\ placed[2] >= 1
    /\ walls_in_pocket[1] < 10
    /\ walls_in_pocket[2] < 10

(***************************************************************************)
(* C11.  make_move increments ply by exactly one and otherwise changes     *)
(* only the fields of the move's kind: a pawn move replaces the pawn of    *)
(* the player selected by the pre-move ply parity and leaves the other     *)
(* pawn, both wall sets and both wall counts unchanged; a wall move        *)
(* decrements only that player's walls_in_pocket by one and adds the       *)
(* crossing point only to the wall set of its orientation, leaving both    *)
(* pawns, the other wall set and the opponent's count unchanged.           *)
(***************************************************************************)
\* the step applies make_move
MoveMade == Len(hist') = Len(hist) + 1 /\ hist'[Len(hist')].kind # "Pass"

\* the step applies pass_turn
TurnPassed == Len(hist') = Len(hist) + 1 /\ hist'[Len(hist')] = Pass

\* what make_move of mv leaves alone and what it changes, but for ply
MoveFrame(mv) ==
    LET mover == (ply % 2) + 1
        other == ((ply + 1) % 2) + 1
    IN  /\ mv.kind = "Pawn" =>
              /\ pawns'[mover] = mv.to_square
              /\ pawns'[other] = pawns[other]
              /\ horizontal_walls' = horizontal_walls
              /\ vertical_walls' = vertical_walls
              /\ walls_in_pocket' = walls_in_pocket
        /\ mv.kind = "Wall" =>
              /\ walls_in_pocket'[mover] = walls_in_pocket[mover] - 1
              /\ walls_in_pocket'[other] = walls_in_pocket[other]
              /\ pawns' = pawns
              /\ mv.orientation = "Horizontal" =>
                    /\ horizontal_walls' = horizontal_walls \cup {mv.to_square}
                    /\ vertical_walls' = vertical_walls
              /\ mv.orientation = "Vertical" =>
                    /\ vertical_walls' = vertical_walls \cup {mv.to_square}
                    /\ horizontal_walls' = horizontal_walls

PassFrame ==
    /\ ply' % 2 # ply % 2
    /\ pawns' = pawns
    /\ horizontal_walls' = horizontal_walls
    /\ vertical_walls' = vertical_walls
    /\ walls_in_pocket' = walls_in_pocket

C13_PassKeepsCount ==
    [][TurnPassed => MoveCount(Board') = MoveCount(Board)]_vars

\* amended: pass_turn on the initial board
C13_PassKeepsCountInitially ==
    [][(TurnPassed /\ hist = <<>>) =>
           (MoveCount(Board') = MoveCount(Board) /\ MoveCount(Board) = 131)]_vars

\* the initial board after pass_turn, generate_moves called: 131 moves, the
\* steps of the pawn on e9
C13_Witness ==
    /\ hist = <<Pass>>
    /\ Generated
    /\ Len(visited) = 131
    /\ Visited(PawnMove(67))
    /\ ~Visited(PawnMove(13))

(***************************************************************************)
(* C14.  From the initial board, after the first player makes any one of   *)
(* its generated pawn moves (e2, d1 or f1) and nothing else, the number of *)
(* moves generated for the second player equals the number generated for   *)
(* the first player before the move (131).                                 *)
(***************************************************************************)
C14_PawnMoveKeepsCount ==
    (Generated /\ Len(hist) = 1 /\ hist[1].kind = "Pawn") =>
        /\ hist[1].to_square \in {Sq9(4, 1), Sq9(3, 0), Sq9(5, 0)}
        /\ MoveCount(Board_default) = 131
        /\ Len(visited) = 131
        /\ \A i \in 1..Len(visited) :
               visited[i].kind = "Pawn" =>
                   visited[i].to_square \in {Sq9(4, 7), Sq9(3, 8), Sq9(5, 8)}

\* after e2 the second player is handed 131 moves, e8 among them
C14_Witness ==
    /\ hist = <<PawnMove(13)>>
    /\ pawns = <<13, 76>>
    /\ ply = 1
    /\ Generated
    /\ Len(visited) = 131
    /\ Visited(PawnMove(67))

(***************************************************************************)
(* C15.  From the initial board, after the first player places one wall W  *)
(* and pass_turn is called, the set of moves generated for the first       *)
(* player is the 131-move initial set minus exactly: the placements of     *)
(* both orientations at W's crossing point, the same-orientation           *)
(* placements at the crossing points next to W along its length that are   *)
(* on the grid, and each pawn step of the first player that W blocks.      *)
(***************************************************************************)
\* the crossing points next to wall w along its length, on the 8x8 grid
AlongLength(w) ==
    LET file == w.to_square % 8
        rank == w.to_square \div 8
    IN  IF w.orientation = "Horizontal"
        THEN {f + rank * 8 : f \in {file - 1, file + 1} \cap 0..7}
        ELSE {file + r * 8 : r \in {rank - 1, rank + 1} \cap 0..7}

\* what wall w takes from the moves of the player whose pawn is on sq
TakenBy(b, w, sq) ==
    {WallMove(w.to_square, "Horizontal"), WallMove(w.to_square, "Vertical")}
    \cup {WallMove(x, w.orientation) : x \in AlongLength(w)}
    \cup {PawnMove(Sq9(File9(sq) + DFile(d), Rank9(sq) + DRank(d))) :
              d \in {x \in Directions :
                       StepBlocked(b, File9(sq), Rank9(sq), x)}}

C15_WallThenPass ==
    (Generated /\ Len(hist) = 2 /\ hist[1].kind = "Wall" /\ hist[2] = Pass) =>
        /\ Range(visited) = InitialMoves \ TakenBy(Board, hist[1], 4)
        /\ Len(visited) = Cardinality(Range(visited))

\* e1h then pass_turn: e1h, e1v, d1h, f1h and the step e2 are gone
C15_Witness ==
    /\ hist = <<WallMove(4, "Horizontal"), Pass>>
    /\ Generated
    /\ Len(visited) = 126
    /\ ~Visited(PawnMove(13))
    /\ ~Visited(WallMove(3, "Horizontal"))
    /\ Visited(WallMove(3, "Vertical"))
    /\ Visited(PawnMove(3))

(***************************************************************************)
(* C16.  From the initial board, after the first player places a wall at   *)
(* crossing point X, the number of wall placements generated for the       *)
(* second player's immediate reply is 128 - 3 when X lies on an edge of    *)
(* the 8x8 crossing grid (file a or h, or rank 1 or 8) and 128 - 4 when X  *)
(* is an interior crossing point.                                          *)
(***************************************************************************)
\* the first player has placed a wall, generate_moves is called for the reply
WallReply == Generated /\ Len(hist) = 1 /\ hist[1].kind = "Wall"

WallsVisited == Cardinality({i \in 1..Len(visited) : visited[i].kind = "Wall"})

OnEdgeFile(sq) == sq % 8 \in {0, 7}

OnEdgeRank(sq) == sq \div 8 \in {0, 7}

\* the wall has no neighbour crossing point beyond one of its ends
AtEndOfLine(w) ==
    IF w.orientation = "Horizontal"
    THEN OnEdgeFile(w.to_square)
    ELSE OnEdgeRank(w.to_square)

\* the claim as stated: any edge of the grid, whatever the orientation
C16_ReplyWallsAnyEdge ==
    WallReply =>
        WallsVisited = IF OnEdgeFile(hist[1].to_square)
                          \/ OnEdgeRank(hist[1].to_square)
                       THEN 128 - 3
                       ELSE 128 - 4

\* amended: the edge the wall runs into (file a or h for a horizontal wall,
\* rank 1 or 8 for a vertical one)
C16_ReplyWallsEndOfLine ==
    WallReply =>
        WallsVisited = IF AtEndOfLine(hist[1]) THEN 128 - 3 ELSE 128 - 4

\* e1h, on rank 1 but in the middle of it, takes four placements
C16_Witness ==
    /\ WallReply
    /\ hist = <<WallMove(4, "Horizontal")>>
    /\ WallsVisited = 124
    /\ ~Visited(WallMove(3, "Horizontal"))
    /\ ~Visited(WallMove(5, "Horizontal"))

(***************************************************************************)
(* C17.  From the initial board, after the first player places a           *)
(* horizontal wall at X the second player has 131 - 3 moves if X is on     *)
(* file a or h and 131 - 4 otherwise; after a vertical wall at X it has    *)
(* 131 - 3 moves if X is on rank 1 or 8 and 131 - 4 otherwise; in each     *)
(* case exactly one move fewer when the wall is one of d8h, e8h, d8v, e8v, *)
(* the only first-move walls that block a step of the pawn on e9.          *)
(***************************************************************************)
\* d8h, e8h, d8v, e8v
BlockerWalls ==
    {WallMove(59, "Horizontal"), WallMove(60, "Horizontal"),
     WallMove(59, "Vertical"), WallMove(60, "Vertical")}

PawnsVisited == Cardinality({i \in 1..Len(visited) : visited[i].kind = "Pawn"})

C17_ReplyMoves ==
    WallReply =>
        LET taken  == IF AtEndOfLine(hist[1]) THEN 3 ELSE 4
            offset == IF hist[1] \in BlockerWalls THEN 1 ELSE 0
        IN  /\ Len(visited) = 131 - taken - offset
            /\ PawnsVisited = 3 - offset

\* e8v, on rank 8: three placements and the step e9-f9 are gone
C17_Witness ==
    /\ WallReply
    /\ hist = <<WallMove(60, "Vertical")>>
    /\ Len(visited) = 127
    /\ ~Visited(PawnMove(77))
    /\ Visited(PawnMove(75))
    /\ Visited(PawnMove(67))

(***************************************************************************)
(* C18.  perft(board, depth) is the number of sequences of depth generated *)
(* moves starting at board: 1 for depth 0, the number of moves             *)
(* generate_moves visits for depth 1, and for depth > 1 the sum over every *)
(* generated move m of perft(board after make_move(m), depth - 1).         *)
(***************************************************************************)
\* the sequences of d moves, each generated on the board the moves before
\* it lead to
RECURSIVE Lines(_, _)
Lines(b, d) ==
    IF d = 0 THEN {<<>>}
    ELSE UNION {{<<m>> \o line : line \in Lines(make_move(b, m), d - 1)} :
                   m \in GeneratedMoves(b)}

\* the sum, over the moves from the lo-th to the hi-th of the sequence
\* moves, of the number of sequences of d moves starting at the board the
\* move leads to
RECURSIVE LinesAfter(_, _, _, _, _)
LinesAfter(b, moves, d, lo, hi) ==
    IF lo > hi THEN 0
    ELSE IF lo = hi THEN Cardinality(Lines(make_move(b, moves[lo]), d))
    ELSE LinesAfter(b, moves, d, lo, (lo + hi) \div 2)
             + LinesAfter(b, moves, d, (lo + hi) \div 2 + 1, hi)

C18_PerftCountsLines ==
    call.fn = "perft" =>
        LET moves == generate_moves(Board, NeverStop).visited
        IN  /\ call.count = Cardinality(Lines(Board, call.depth))
            /\ call.depth = 0 => call.count = 1
            /\ call.depth = 1 =>
                   call.count = Cardinality(GeneratedMoves(Board))
            /\ call.depth > 1 =>
                   /\ Cardinality(Range(moves)) = Len(moves)
                   /\ call.count =
                          LinesAfter(Board, moves, call.depth - 1, 1, Len(moves))

\* perft to depth 4 after e2 on the board without walls: 150 sequences of
\* pawn moves
C18_Witness ==
    /\ call.fn = "perft"
    /\ call.depth = 4
    /\ Board = NoWallBoardE2
    /\ call.count = 150

(***************************************************************************)
(* C19.  perft(initial board, 2) = 3*131 + 32*(131-3) + 96*(131-4) - 4     *)
(* = 16677.                                                                *)
(***************************************************************************)
C19_PerftDepthTwo ==
    (call.fn = "perft" /\ Board = Board_default /\ call.depth = 2) =>
        /\ call.count = 16677
        /\ call.count = 3 * 131 + 32 * (131 - 3) + 96 * (131 - 4) - 4

C19_Witness ==
    /\ call.fn = "perft"
    /\ Board = Board_default
    /\ call.depth = 2
    /\ call.count = 16677

(***************************************************************************)
(* C20.  For every board, every depth, and every cache that is empty or    *)
(* was populated only by earlier perft_cached calls (for any boards and    *)
(* depths), perft_cached(board, depth, cache) returns the same value as    *)
(* perft(board, depth); a cache hit never returns a count stored for a     *)
(* board that differs in pawns, walls, wall counts or ply, or for a        *)
(* different depth.                                                        *)
(***************************************************************************)
\* the entries of the cache stored for board b and depth d
EntriesFor(c, b, d) == {e \in c : e.board = b /\ e.depth = d}

\* the call returns what perft returns, and the cache holds entries for
\* depths above 1 only, each under a key no other entry has
CachedIsPerft ==
    /\ call.fn = "perft_cached" => call.count = perft(Board, call.depth)
    /\ \A e \in cache :
           /\ e.depth >= 2
           /\ EntriesFor(cache, e.board, e.depth) = {e}

\* a call stores under each key perft of that key's own board and depth,
\* and leaves the entries it found as they were
StoresPerft ==
    /\ cache \subseteq cache'
    /\ \A e \in cache' \ cache : e.count = perft(e.board, e.depth)

\* a call that finds its own key in the cache returns the count stored
\* under that key and leaves the cache as it is
HitReturnsOwnEntry ==
    (call'.fn = "perft_cached" /\ hist' # hist
         /\ EntriesFor(cache, Board, call'.depth) # {}) =>
        /\ \E e \in EntriesFor(cache, Board, call'.depth) :
               call'.count = e.count
        /\ cache' = cache

C20_CachedEqualsPerft ==
    /\ []CachedIsPerft
    /\ [][StoresPerft /\ HitReturnsOwnEntry]_vars

\* the second call, to depth 3 on the board after e2 and pass_turn, was
\* made with the entry of the board after e2 (the same but for ply) to
\* depth 3 in the cache, and returned a count of its own
C20_Witness ==
    /\ call.fn = "perft_cached"
    /\ Len(hist) = 2
    /\ Board = NoWallBoardE2Pass
    /\ call.depth = 3
    /\ \E e \in EntriesFor(cache, NoWallBoardE2, 3) : e.count # call.count
    /\ \E e \in EntriesFor(cache, NoWallBoardE2Pass, 3) : e.count = call.count

(***************************************************************************)
(* Square (types.rs): the 81-square index type on its own, with its        *)
(* adjacency, its printing and its parsing.  A char is its code point, a   *)
(* text (&str, String) is the sequence of its chars, and its len() is the  *)
(* number of bytes of its UTF-8 encoding.  A Result is a record: Ok with   *)
(* the index of the square, Err with the variant of SquareParseError and   *)
(* the value it carries, or Panic when the call does not return.           *)
(***************************************************************************)
\* b'a'
LowerA == 97
\* b'1'
DigitOne == 49

\* char::len_utf8
Utf8Len(c) ==
    IF c < 128 THEN 1 ELSE IF c < 2048 THEN 2 ELSE IF c < 65536 THEN 3 ELSE 4

RECURSIVE str_len(_)
str_len(s) == IF s = <<>> THEN 0 ELSE Utf8Len(Head(s)) + str_len(Tail(s))

is_ascii_alphabetic(c) == c \in 65..90 \/ c \in 97..122

is_ascii_digit(c) == c \in 48..57

to_ascii_lowercase(c) == IF c \in 65..90 THEN c + 32 ELSE c

\* the decimal text of a u8, as "{}" prints it
Decimal(n) ==
    IF n < 10 THEN <<48 + n>>
    ELSE IF n < 100 THEN <<48 + (n \div 10), 48 + (n % 10)>>
    ELSE <<48 + (n \div 100), 48 + ((n \div 10) % 10), 48 + (n % 10)>>

Ok(index) == [kind |-> "Ok", err |-> "None", val |-> index]

Err(variant, carried) == [kind |-> "Err", err |-> variant, val |-> carried]

Panic == [kind |-> "Panic", err |-> "None", val |-> 0]

SquareParseError ==
    {"TooLong", "TooShort", "Empty", "NonAlphabeticFile", "NonDigitRank",
     "FileSubtractionUnderflow", "RankSubtractionUnderflow",
     "FileOutOfRange", "RankOutOfRange"}

Square_from_index(index) == IF index < 81 THEN {index} ELSE {}

Square_from_file_rank(file, rank) == Square_from_index((file + rank * 9) % 256)

Square_above(index) == IF index < 9 THEN {} ELSE {index - 9}

Square_below(index) == IF index > 71 THEN {} ELSE {index + 9}

Square_left(index) == IF index % 9 = 0 THEN {} ELSE {index - 1}

Square_right(index) == IF index % 9 = 8 THEN {} ELSE {index + 1}

\* a variant of Display that prints the rank from 0
Square_to_string_from_zero(index) ==
    <<(LowerA + (index % 9)) % 256>> \o Decimal(index \div 9)

\* Display for Square
Square_to_string(index) ==
    LET file == index % 9
        rank == index \div 9
    IN  <<(LowerA + file) % 256>> \o Decimal(rank + 1)

\* a variant of from_str that tests the range of the rank before the
\* subtraction
Square_from_str_range_first(s) ==
    IF str_len(s) = 0 THEN Err("Empty", 0)
    ELSE IF str_len(s) = 1 THEN Err("TooShort", 0)
    ELSE IF str_len(s) # 2 THEN Err("TooLong", str_len(s))
    ELSE IF Len(s) < 2 THEN Panic
    ELSE LET file == s[1]
             rank == s[2]
             file_index == (to_ascii_lowercase(file) % 256) - LowerA
             rank_index == (rank % 256) - DigitOne
         IN  IF ~is_ascii_alphabetic(file) THEN Err("NonAlphabeticFile", file)
             ELSE IF ~is_ascii_digit(rank) THEN Err("NonDigitRank", rank)
             ELSE IF file_index \notin 0..8 THEN Err("FileOutOfRange", file)
             ELSE IF rank_index \notin 0..8 THEN Err("RankOutOfRange", rank)
             ELSE Ok(file_index + rank_index * 9)

\* FromStr for Square: chars.next().unwrap() is called twice on a text of
\* two bytes, and the second call finds no char when the text is one char
\* of two bytes
Square_from_str(s) ==
    IF str_len(s) = 0 THEN Err("Empty", 0)
    ELSE IF str_len(s) = 1 THEN Err("TooShort", 0)
    ELSE IF str_len(s) # 2 THEN Err("TooLong", str_len(s))
    ELSE IF Len(s) < 2 THEN Panic
    ELSE LET file == s[1]
             rank == s[2]
             file_lower == to_ascii_lowercase(file)
         IN  IF ~is_ascii_alphabetic(file) THEN Err("NonAlphabeticFile", file)
             ELSE IF ~is_ascii_digit(rank) THEN Err("NonDigitRank", rank)
             ELSE IF file_lower % 256 < LowerA
                  THEN Err("FileSubtractionUnderflow", file)
             ELSE IF rank % 256 < DigitOne
                  THEN Err("RankSubtractionUnderflow", rank)
             ELSE LET file_index == (file_lower % 256) - LowerA
                      rank_index == (rank % 256) - DigitOne
                  IN  IF file_index \notin 0..8
                      THEN Err("FileOutOfRange", file)
                      ELSE IF rank_index \notin 0..8
                      THEN Err("RankOutOfRange", rank)
                      ELSE Ok(file_index + rank_index * 9)

(***************************************************************************)
(* A program that uses Square: it takes the square of an index, asks for   *)
(* one of its neighbours, prints it and parses what was printed, as the    *)
(* test square_round_trip does; or it parses a text it was given.  hist    *)
(* records the calls made.                                                 *)
(***************************************************************************)
\* the longest text handed to the parser, in chars
MaxTextLen == 3

\* a e i j z, A I J Z, 0 1 5 9, ! / : `, and the chars of two and three
\* bytes e-acute, arabic-indic digit one and the euro sign
ProbeChars ==
    {97, 101, 105, 106, 122, 65, 73, 74, 90, 48, 49, 53, 57,
     33, 47, 58, 96, 233, 1633, 8364}

Texts == UNION {[1..n -> ProbeChars] : n \in 0..MaxTextLen}

Neighbours == {"above", "below", "left", "right"}

Neighbour(fn, index) ==
    CASE fn = "above" -> Square_above(index)
      [] fn = "below" -> Square_below(index)
      [] fn = "left"  -> Square_left(index)
      [] fn = "right" -> Square_right(index)

LastCall == IF hist = <<>> THEN "none" ELSE hist[Len(hist)].kind

\* let square = Square::from_index(index)
FromIndex(index) ==
    /\ hist = <<>>
    /\ square_opt' = Square_from_index(index)
    /\ hist' = <<Called("from_index")>>
    /\ UNCHANGED <<square_str, square_parsed>>

\* let square = square.above(), ...
AskNeighbour(fn) ==
    /\ hist = <<Called("from_index")>>
    /\ square_opt # {}
    /\ square_opt' = Neighbour(fn, Some(square_opt))
    /\ hist' = Append(hist, Called(fn))
    /\ UNCHANGED <<square_str, square_parsed>>

\* let square_str = square.to_string()
CallToString ==
    /\ LastCall \in {"from_index"} \cup Neighbours
    /\ square_opt # {}
    /\ square_str' = Square_to_string(Some(square_opt))
    /\ hist' = Append(hist, Called("to_string"))
    /\ UNCHANGED <<square_opt, square_parsed>>

\* let square_parsed = Square::from_str(&square_str)
FromStrPrinted ==
    /\ LastCall = "to_string"
    /\ square_parsed' = Square_from_str(square_str)
    /\ hist' = Append(hist, Called("from_str"))
    /\ UNCHANGED <<square_opt, square_str>>

\* s.parse::<Square>() of a text from outside
FromStrGiven(s) ==
    /\ hist = <<>>
    /\ square_str' = s
    /\ square_parsed' = Square_from_str(s)
    /\ hist' = <<Called("parse")>>
    /\ UNCHANGED square_opt

NextSquare ==
    \/ /\ hist = <<>>
       /\ \E index \in 0..255 : FromIndex(index)
       /\ UNCHANGED <<boardVars, placed, genVars, perftVars, squareset, rhs>>
    \/ /\ \E fn \in Neighbours : AskNeighbour(fn)
       /\ UNCHANGED <<boardVars, placed, genVars, perftVars, squareset, rhs>>
    \/ /\ CallToString
       /\ UNCHANGED <<boardVars, placed, genVars, perftVars, squareset, rhs>>
    \/ /\ FromStrPrinted
       /\ UNCHANGED <<boardVars, placed, genVars, perftVars, squareset, rhs>>
    \/ /\ hist = <<>>
       /\ \E s \in Texts : FromStrGiven(s)
       /\ UNCHANGED <<boardVars, placed, genVars, perftVars, squareset, rhs>>

SpecSquare == Init /\ [][NextSquare]_vars

(***************************************************************************)
(* C21.  For every Square index i in 0..80 the text printed for the square *)
(* is the file letter 'a' + (i mod 9) followed by the digit 1 + (i div 9), *)
(* and parsing that text returns the square with index i.                  *)
(***************************************************************************)
Printed == LastCall = "to_string" \/ (LastCall = "from_str" /\ square_opt # {})

C21_RoundTrip ==
    Printed =>
        LET i == Some(square_opt)
        IN  /\ i \in 0..80
            /\ square_str = <<LowerA + (i % 9), DigitOne + (i \div 9)>>
            /\ LastCall = "from_str" => square_parsed = Ok(i)

\* i9 (index 80) has been printed as "i9" and parsed back
C21_Witness ==
    /\ hist = <<Called("from_index"), Called("to_string"), Called("from_str")>>
    /\ square_opt = {80}
    /\ square_str = <<105, 57>>
    /\ square_parsed = Ok(80)

(***************************************************************************)
(* C22.  Parsing applies its checks in this order and returns the first    *)
(* failure: length 0 gives Empty, length 1 TooShort, length n > 2          *)
(* TooLong(n); a non-alphabetic first character c NonAlphabeticFile(c); a  *)
(* non-digit second character c NonDigitRank(c); the rank character '0'    *)
(* RankSubtractionUnderflow('0'); a file letter after 'i'                  *)
(* FileOutOfRange(letter); otherwise the square with file = lower-cased    *)
(* letter - 'a' and rank = digit - '1'.  The length is the len() of the    *)
(* text.                                                                   *)
(***************************************************************************)
GivenParsed == LastCall = "parse"

\* the first character of a text, when it has one
FirstChar(s) == IF Len(s) >= 1 THEN {s[1]} ELSE {}

\* the second character of a text, when it has one
SecondChar(s) == IF Len(s) >= 2 THEN {s[2]} ELSE {}

Letter(c) == (c \in 65..90) \/ (c \in 97..122)

Digit(c) == c \in 48..57

Lowered(c) == IF c \in 65..90 THEN c + 32 ELSE c

C22_ParseOrder ==
    GivenParsed =>
        LET s == square_str
            n == str_len(s)
        IN  square_parsed =
              IF n = 0 THEN Err("Empty", 0)
              ELSE IF n = 1 THEN Err("TooShort", 0)
              ELSE IF n > 2 THEN Err("TooLong", n)
              ELSE IF \E c \in FirstChar(s) : ~Letter(c)
                   THEN Err("NonAlphabeticFile", s[1])
              ELSE IF \E c \in SecondChar(s) : ~Digit(c)
                   THEN Err("NonDigitRank", s[2])
              ELSE IF s[2] = 48
                   THEN Err("RankSubtractionUnderflow", 48)
              ELSE IF Lowered(s[1]) > 105
                   THEN Err("FileOutOfRange", s[1])
              ELSE Ok((Lowered(s[1]) - 97) + (s[2] - 49) * 9)

(***************************************************************************)
(* C23.  Parsing a two-character text whose file letter is valid and whose *)
(* rank character is a digit outside '1'..'9' returns the                  *)
(* rank-out-of-range error carrying that character.                        *)
(***************************************************************************)
\* a valid file letter followed by a digit outside '1'..'9'
RankDigitOutside(s) ==
    /\ Len(s) = 2
    /\ Lowered(s[1]) \in 97..105
    /\ Digit(s[2])
    /\ s[2] \notin 49..57

C23_RankOutOfRange ==
    (GivenParsed /\ RankDigitOutside(square_str)) =>
        square_parsed = Err("RankOutOfRange", square_str[2])

\* as amended: the only such digit is '0', the subtraction of '1' fails
\* first, and no text is answered with RankOutOfRange
C23_RankZeroUnderflow ==
    GivenParsed =>
        /\ RankDigitOutside(square_str) =>
               square_parsed = Err("RankSubtractionUnderflow", square_str[2])
        /\ square_parsed.err # "RankOutOfRange"

\* "a0" has been parsed
C23_Witness ==
    /\ GivenParsed
    /\ square_str = <<97, 48>>
    /\ square_parsed = Err("RankSubtractionUnderflow", 48)

(***************************************************************************)
(* C24.  For every input text, including text with multi-byte characters,  *)
(* parsing returns either a square or one of the enumerated                *)
(* SquareParseError values; it never panics, and it never returns a square *)
(* for malformed input.                                                    *)
(***************************************************************************)
\* a letter a..i of either case followed by a digit 1..9
WellFormed(s) ==
    /\ Len(s) = 2
    /\ Lowered(s[1]) \in 97..105
    /\ s[2] \in 49..57

C24_AlwaysReturns ==
    GivenParsed =>
        /\ square_parsed.kind \in {"Ok", "Err"}
        /\ square_parsed.kind = "Err" => square_parsed.err \in SquareParseError
        /\ square_parsed.kind = "Ok" => WellFormed(square_str)

(***************************************************************************)
(* C25.  For a Square at file f, rank r: above returns (f, r + 1) and none *)
(* exactly when r = 8; below returns (f, r - 1) and none exactly when      *)
(* r = 0; left returns (f - 1, r) and none exactly when f = 0; right       *)
(* returns (f + 1, r) and none exactly when f = 8; none of them wraps.     *)
(***************************************************************************)
Asked(fn) ==
    /\ hist = <<Called("from_index")>>
    /\ hist' = <<Called("from_index"), Called(fn)>>

\* the neighbour of (f, r) one step in a direction, none off the grid
Towards(index, df, dr) ==
    LET f == (index % 9) + df
        r == (index \div 9) + dr
    IN  IF f \in 0..8 /\ r \in 0..8 THEN {f + r * 9} ELSE {}

C25_Neighbours ==
    [][/\ Asked("above") => square_opt' = Towards(Some(square_opt), 0, 1)
       /\ Asked("below") => square_opt' = Towards(Some(square_opt), 0, -1)
       /\ Asked("left")  => square_opt' = Towards(Some(square_opt), -1, 0)
       /\ Asked("right") => square_opt' = Towards(Some(square_opt), 1, 0)]_vars

(***************************************************************************)
(* SquareSet over the 81 squares (squareset9x9.rs).  The inner u128 is     *)
(* modelled as the set of its set bit positions, a subset of 0..127;       *)
(* shifts drop the bits that leave the 128-bit word.  A shift by 128 or    *)
(* more overflows: a debug build panics, a release build shifts by the     *)
(* amount modulo 128, which is what shr and shl below compute.             *)
(***************************************************************************)
Bits128 == 0..127

Shl128(inner, n) == {i + n : i \in inner} \cap Bits128

Shr128(inner, n) == {i - n : i \in inner} \cap Bits128

Not128(a) == Bits128 \ a

Xor128(a, b) == (a \ b) \cup (b \ a)

ALL_MASK == {index \in Bits128 : index < 81}

A_FILE == {index \in Bits128 : index < 81 /\ index % 9 = 0}

I_FILE == {index \in Bits128 : index < 81 /\ index % 9 = 8}

SquareSet9x9_contains(self, square) ==
    BitAnd(self, Shl128({0}, square)) # {}

SquareSet9x9_add(self, square) == BitOr(self, Shl128({0}, square))

SquareSet9x9_remove(self, square) ==
    BitAnd(self, Not128(Shl128({0}, square)))

SquareSet9x9_north_one(self) == BitAnd(Shl128(self, 9), ALL_MASK)

SquareSet9x9_south_one(self) == Shr128(self, 9)

\* a variant of complement that keeps the bits above the grid
SquareSet9x9_complement_nomask(self) == Not128(self)

SquareSet9x9_complement(self) == BitAnd(Not128(self), ALL_MASK)

SquareSet9x9_intersection(self, other) == BitAnd(self, other)

SquareSet9x9_west_one(self) ==
    SquareSet9x9_intersection(Shr128(self, 1), SquareSet9x9_complement(I_FILE))

\* a variant of east_one that masks the i file instead of the a file
SquareSet9x9_east_one_wrong_file(self) ==
    SquareSet9x9_intersection(Shl128(self, 1), SquareSet9x9_complement(I_FILE))

SquareSet9x9_east_one(self) ==
    SquareSet9x9_intersection(Shl128(self, 1), SquareSet9x9_complement(A_FILE))

SquareSet9x9_bitor(self, other) == BitOr(self, other)

SquareSet9x9_bitand(self, other) == BitAnd(self, other)

\* self.inner ^ rhs.inner & Self::ALL_MASK: & binds tighter than ^
SquareSet9x9_bitxor(self, other) == Xor128(self, BitAnd(other, ALL_MASK))

SquareSet9x9_bitxor_assign(self, other) == BitAnd(Xor128(self, other), ALL_MASK)

SquareSet9x9_sub(self, other) == BitAnd(self, Not128(other))

SquareSet9x9_not(self) == BitAnd(Not128(self), ALL_MASK)

SquareSet9x9_shr(self, n) == Shr128(self, n % 128)

SquareSet9x9_shl(self, n) == BitAnd(Shl128(self, n % 128), ALL_MASK)

\* the assertion of Display: no bit outside the board is set
SquareSet9x9_fmt_assert(self) == BitAnd(self, Not128(ALL_MASK)) = {}

\* what Display writes: the ranks from 9 down to 1, each as nine tokens
\* "X " or ". " and a line feed
SquareSet9x9_fmt(self) ==
    [k \in 1..171 |->
        LET rank == 8 - ((k - 1) \div 19)
            col == (k - 1) % 19
        IN  IF col = 18 THEN 10
            ELSE IF col % 2 = 1 THEN 32
            ELSE IF SquareSet9x9_contains(self,
                        Some(Square_from_file_rank(col \div 2, rank)))
                 THEN 88 ELSE 46]

(***************************************************************************)
(* A program that uses SquareSet: it holds two sets, `squareset` and       *)
(* `rhs`, both empty at first; every step replaces `squareset` by the      *)
(* result of one operation on it (with `rhs` as the second operand of a    *)
(* binary operator), copies it to `rhs`, or displays it.  hist records the *)
(* operations applied, "panic" when the assertion of Display failed.       *)
(***************************************************************************)
\* operations applied to the sets
MaxOps == 3

\* the corners a1, i1, a9, i9 of the tests
ProbeSquares == {0, 8, 72, 80}

ProbeShifts == {1, 47, 200}

UnaryOps == {"north_one", "south_one", "west_one", "east_one",
             "complement", "not"}

BinaryOps == {"intersection", "bitor", "bitand", "bitxor", "bitxor_assign",
              "sub"}

Unary(op, self) ==
    CASE op = "north_one"  -> SquareSet9x9_north_one(self)
      [] op = "south_one"  -> SquareSet9x9_south_one(self)
      [] op = "west_one"   -> SquareSet9x9_west_one(self)
      [] op = "east_one"   -> SquareSet9x9_east_one(self)
      [] op = "complement" -> SquareSet9x9_complement(self)
      [] op = "not"        -> SquareSet9x9_not(self)

Binary(op, self, other) ==
    CASE op = "intersection"  -> SquareSet9x9_intersection(self, other)
      [] op = "bitor"         -> SquareSet9x9_bitor(self, other)
      [] op = "bitand"        -> SquareSet9x9_bitand(self, other)
      [] op = "bitxor"        -> SquareSet9x9_bitxor(self, other)
      [] op = "bitxor_assign" -> SquareSet9x9_bitxor_assign(self, other)
      [] op = "sub"           -> SquareSet9x9_sub(self, other)

Applied(op) == hist' = Append(hist, Called(op))

\* squareset = squareset.north_one(), ..., !squareset
ApplyUnary(op) ==
    /\ squareset' = Unary(op, squareset)
    /\ Applied(op)
    /\ UNCHANGED <<rhs, square_str>>

\* squareset = squareset.add(square), squareset.remove(square)
ApplySquare(op, square) ==
    /\ squareset' = IF op = "add" THEN SquareSet9x9_add(squareset, square)
                    ELSE SquareSet9x9_remove(squareset, square)
    /\ Applied(op)
    /\ UNCHANGED <<rhs, square_str>>

\* squareset = squareset | rhs, ..., squareset ^= rhs
ApplyBinary(op) ==
    /\ squareset' = Binary(op, squareset, rhs)
    /\ Applied(op)
    /\ UNCHANGED <<rhs, square_str>>

\* squareset = squareset << n, squareset >> n
ApplyShift(op, n) ==
    /\ squareset' = IF op = "shl" THEN SquareSet9x9_shl(squareset, n)
                    ELSE SquareSet9x9_shr(squareset, n)
    /\ Applied(op)
    /\ UNCHANGED <<rhs, square_str>>

\* let rhs = squareset (SquareSet is Copy)
CopyToRhs ==
    /\ rhs' = squareset
    /\ Applied("copy")
    /\ UNCHANGED <<squareset, square_str>>

\* format!("{squareset}")
DisplaySet ==
    /\ square_str' = SquareSet9x9_fmt(squareset)
    /\ Applied(IF SquareSet9x9_fmt_assert(squareset) THEN "fmt" ELSE "panic")
    /\ UNCHANGED <<squareset, rhs>>

NextSquareSet ==
    /\ Len(hist) < MaxOps
    /\ "panic" \notin {hist[i].kind : i \in 1..Len(hist)}
    /\ \/ \E op \in UnaryOps : ApplyUnary(op)
       \/ \E op \in {"add", "remove"}, square \in ProbeSquares :
              ApplySquare(op, square)
       \/ \E op \in BinaryOps : ApplyBinary(op)
       \/ \E op \in {"shl", "shr"}, n \in ProbeShifts : ApplyShift(op, n)
       \/ CopyToRhs
       \/ DisplaySet
    /\ UNCHANGED <<boardVars, placed, genVars, perftVars, square_opt,
                   square_parsed>>

SpecSquareSet == Init /\ [][NextSquareSet]_vars

(***************************************************************************)
(* C26.  Every SquareSet produced from the empty set by any sequence of    *)
(* add, remove, north_one, south_one, east_one, west_one, complement,      *)
(* intersection, the | & ^ - ! operators and the << >> shift operators has *)
(* all bits at positions 81..127 equal to zero, so the assertion in        *)
(* Display never fails.                                                    *)
(***************************************************************************)
C26_HighBitsZero ==
    /\ squareset \cap (81..127) = {}
    /\ rhs \cap (81..127) = {}
    /\ \A i \in 1..Len(hist) : hist[i].kind # "panic"

\* the full board, pushed north by the shift operator, has been displayed
C26_Witness ==
    /\ hist = <<Called("complement"), Called("shl"), Called("fmt")>>
    /\ squareset = 47..80

(***************************************************************************)
(* C27.  For every SquareSet S: north_one(S) = {(f, r+1) : (f, r) in S,    *)
(* r < 8}, south_one(S) = {(f, r-1) : (f, r) in S, r > 0}, east_one(S) =   *)
(* {(f+1, r) : (f, r) in S, f < 8}, west_one(S) = {(f-1, r) : (f, r) in S, *)
(* f > 0}; a square on the i file never appears on the a file of the next  *)
(* rank after east_one, nor one on the a file on the i file of the         *)
(* previous rank after west_one.                                           *)
(***************************************************************************)
\* the squares of S moved by (df, dr), those that leave the grid dropped
Moved(S, df, dr) ==
    {Sq9(File9(x) + df, Rank9(x) + dr) :
        x \in {y \in S : OnGrid(File9(y) + df, Rank9(y) + dr)}}

C27_Shifts ==
    [][/\ Applied("north_one") => squareset' = Moved(squareset, 0, 1)
       /\ Applied("south_one") => squareset' = Moved(squareset, 0, -1)
       /\ Applied("east_one")  => squareset' = Moved(squareset, 1, 0)
       /\ Applied("west_one")  => squareset' = Moved(squareset, -1, 0)]_vars

\* east_one of {a1, i1} is {b1}: i1 has not become a2
C27_Witness ==
    /\ hist = <<Called("add"), Called("add"), Called("east_one")>>
    /\ squareset = {1}

(***************************************************************************)
(* C28.  After any sequence of perft_cached calls that starts with an      *)
(* empty cache, every cache entry ((b, d), v) has d >= 2 and               *)
(* v = perft(b, d); calls with depth 0 or 1 neither read nor modify the    *)
(* cache.                                                                  *)
(***************************************************************************)
EntriesDeep == \A e \in cache : e.depth >= 2

\* every entry a step adds or replaces holds perft of its own key
NewEntriesArePerft ==
    \A e \in cache' \ cache : e.count = perft(e.board, e.depth)

\* a call of perft_cached to depth 0 or 1 has just been made
ShallowCall ==
    /\ Len(hist') = Len(hist) + 1
    /\ call'.fn = "perft_cached"
    /\ call'.depth <= 1

\* the cache of the call with a false entry put under the call's own key
Poisoned == cache \cup {[board |-> Board, depth |-> call'.depth, count |-> 0]}

\* the call leaves the cache as it found it, and returns the same count
\* and leaves the cache alone when it is handed a false entry for its key
ShallowCallIgnoresCache ==
    ShallowCall =>
        /\ cache' = cache
        /\ perft_cached(Board, call'.depth, Poisoned) =
               [count |-> call'.count, cache |-> Poisoned]
        /\ call'.count = perft(Board, call'.depth)

C28_CacheEntries ==
    /\ []EntriesDeep
    /\ [][NewEntriesArePerft /\ ShallowCallIgnoresCache]_vars

\* a call to depth 1 has been made with an entry in the cache
C28_Witness ==
    /\ hist = <<Called("perft_cached"), Called("perft_cached")>>
    /\ call = [fn |-> "perft_cached", depth |-> 1, count |-> 131]
    /\ cache = {[board |-> Board_default, depth |-> 2, count |-> 16677]}

(***************************************************************************)
(* A game in which the pockets run dry: from the initial board the first   *)
(* player places horizontal walls and the second vertical walls, each the  *)
(* first placement of that orientation that generate_moves visits, and     *)
(* either may call pass_turn instead.  Pawn moves are left out: they do    *)
(* not touch the wall counts.                                              *)
(***************************************************************************)
\* plies played in the game of the walls
MaxWallPly == 21

\* the wall move the driver plays on board b, as an Option
TrackWalls(b) ==
    LET v   == generate_moves(b, NeverStop).visited
        o   == IF turn_index(b) = 0 THEN "Horizontal" ELSE "Vertical"
        idx == {i \in 1..Len(v) : v[i].kind = "Wall" /\ v[i].orientation = o}
    IN  IF idx = {} THEN {}
        ELSE {v[CHOOSE i \in idx : \A j \in idx : i <= j]}

NextWalls ==
    \/ /\ ply < MaxWallPly
       /\ \E mv \in TrackWalls(Board) : MakeMove(mv)
       /\ UNCHANGED <<hist, call, cache, typesVars>>
    \/ /\ ply < MaxWallPly
       /\ PassTurn
       /\ UNCHANGED <<hist, call, cache, typesVars>>

SpecWalls == Init /\ [][NextWalls]_vars

(***************************************************************************)
(* C29.  In every board reachable from the initial board by make_move of   *)
(* moves that generate_moves visits (interleaved with pass_turn), whenever *)
(* generate_moves visits a wall move the mover's walls_in_pocket is at     *)
(* least 1, so the decrement in make_move never underflows the 8-bit count *)
(* and each player places at most 10 walls.                                *)
(***************************************************************************)
\* generate_moves visits a wall move on the board
VisitsWall(b) == \E mv \in GeneratedMoves(b) : mv.kind = "Wall"

\* a wall move has just been made
WallMade == placed' # placed

C29_NoUnderflow ==
    /\ [](/\ VisitsWall(Board) => MoverPocket(Board) >= 1
          /\ \A p \in 1..2 : placed[p] <= 10)
    /\ [][WallMade =>
            /\ MoverPocket(Board) >= 1
            /\ walls_in_pocket'[turn_index(Board) + 1] =
                   MoverPocket(Board) - 1]_vars

\* both players have placed their ten walls, and the player to move is
\* handed pawn moves only
C29_Witness ==
    /\ placed = <<10, 10>>
    /\ walls_in_pocket = <<0, 0>>
    /\ ~VisitsWall(Board)
    /\ GeneratedMoves(Board) # {}

(***************************************************************************)
(* A game on a block of crossing points: from the initial board the        *)
(* players place any wall that generate_moves visits on the crossing       *)
(* points d4, e4, f4, d5, e5, f5 (three adjacent files on two adjacent     *)
(* ranks), or call pass_turn.                                              *)
(***************************************************************************)
\* plies played in the game on the block
MaxBlockPly == 5

\* d4, e4, f4, d5, e5, f5
BlockCrossings ==
    {Square8x8_from_file_rank(file, rank) :
        file \in {3, 4, 5}, rank \in {3, 4}}

BlockPlays(mv) == mv.kind = "Wall" /\ mv.to_square \in BlockCrossings

NextBlock ==
    \/ /\ ply < MaxBlockPly
       /\ \E mv \in {m \in GeneratedMoves(Board) : BlockPlays(m)} :
              MakeMove(mv)
       /\ UNCHANGED <<hist, call, cache, typesVars>>
    \/ /\ ply < MaxBlockPly
       /\ PassTurn
       /\ UNCHANGED <<hist, call, cache, typesVars>>

SpecBlock == Init /\ [][NextBlock]_vars

(***************************************************************************)
(* C30.  In every board reachable from the initial board by make_move of   *)
(* moves that generate_moves visits (interleaved with pass_turn), no two   *)
(* horizontal walls are anchored at crossing points of the same rank and   *)
(* adjacent files, and no two vertical walls at crossing points of the     *)
(* same file and adjacent ranks.                                           *)
(***************************************************************************)
C30_NoOverlap ==
    /\ \A x \in horizontal_walls, y \in horizontal_walls :
           ~(x \div 8 = y \div 8 /\ (x % 8) + 1 = y % 8)
    /\ \A x \in vertical_walls, y \in vertical_walls :
           ~(x % 8 = y % 8 /\ (x \div 8) + 1 = y \div 8)

\* d4h, e5h, e4v and d5v stand next to one another
C30_Witness ==
    /\ horizontal_walls = {27, 36}
    /\ vertical_walls = {28, 35}

====
